---- MODULE Spec2Model ----
(***************************************************************************)
(* The hand_detection plugin glue: the Windows plugin                      *)
(* (src/windows/hand_detection_plugin.cpp and its two registration shims)  *)
(* and the generated Linux plugin registrant                               *)
(* (src/example/linux/flutter/generated_plugin_registrant.cc).             *)
(*                                                                         *)
(* Text (std::string, string literals) is a sequence of character codes,   *)
(* so that comparison, concatenation and "begins with" are computed.       *)
(* A value that may be absent is a sequence of length 0 or 1.              *)
(***************************************************************************)
EXTENDS Integers, Sequences, FiniteSets, TLC

\* ------------------------------------------------------------- bounds

\* Number of host-assigned registrar references (FlutterDesktopPluginRegistrarRef).
NumRegistrars == 2
\* Cap on the number of HandDetectionPlugin instances ever constructed.
MaxPlugins == 2
\* Number of Linux plugin registries (FlPluginRegistry) the registrant may be run on.
NumRegistries == 2

Registrars == 1..NumRegistrars
Registries == 1..NumRegistries

\* ------------------------------------------------------------- text

\* "getPlatformVersion"
kGetPlatformVersion ==
  <<103, 101, 116, 80, 108, 97, 116, 102, 111, 114, 109, 86, 101, 114, 115, 105, 111, 110>>
\* "Windows "
kWindows == <<87, 105, 110, 100, 111, 119, 115, 32>>
\* "10+"
kTier10 == <<49, 48, 43>>
\* "8"
kTier8 == <<56>>
\* "7"
kTier7 == <<55>>
\* The channel name passed to the MethodChannel constructor.
kChannelName == "hand_detection"

\* Method names the host may deliver: the supported one, the empty name,
\* "GetPlatformVersion", "getPlatformVersion2", "xgetPlatformVersion",
\* "doSomethingElse".
MethodNames ==
  { kGetPlatformVersion,
    <<>>,
    <<71, 101, 116, 80, 108, 97, 116, 102, 111, 114, 109, 86, 101, 114, 115, 105, 111, 110>>,
    <<103, 101, 116, 80, 108, 97, 116, 102, 111, 114, 109, 86, 101, 114, 115, 105, 111, 110, 50>>,
    <<120, 103, 101, 116, 80, 108, 97, 116, 102, 111, 114, 109, 86, 101, 114, 115, 105, 111, 110>>,
    <<100, 111, 83, 111, 109, 101, 116, 104, 105, 110, 103, 69, 108, 115, 101>> }

\* flutter::EncodableValue: a tagged value.
EncodableValue(type, value) == [type |-> type, value |-> value]

\* Argument payloads of a call: null (no arguments) and a non-null string.
NoArguments == EncodableValue("null", <<>>)
Arguments == { NoArguments, EncodableValue("string", <<120>>) }

Min(a, b) == IF a < b THEN a ELSE b

\* Faulty variant of MethodMatches: it compares only the first characters of the
\* name, as compare(0, n, literal) would.
MethodMatchesPrefix(name) ==
  /\ Len(name) >= Len(kGetPlatformVersion)
  /\ SubSeq(name, 1, Len(kGetPlatformVersion)) = kGetPlatformVersion

\* std::string::compare(const char*): the sign of the first differing
\* character, else of the difference of the lengths.
StrCompare(a, b) ==
  LET n == Min(Len(a), Len(b))
      diff == { i \in 1..n : a[i] # b[i] }
  IN  IF diff # {}
        THEN LET i == CHOOSE k \in diff : \A j \in diff : k <= j
             IN  IF a[i] < b[i] THEN -1 ELSE 1
        ELSE IF Len(a) < Len(b) THEN -1
        ELSE IF Len(a) > Len(b) THEN 1
        ELSE 0

\* method_call.method_name().compare("getPlatformVersion") == 0
MethodMatches(name) == StrCompare(name, kGetPlatformVersion) = 0

\* ------------------------------------------------------------- the handler

\* The answers of the three OS probes of VersionHelpers.h.
OsAnswers == [w10 : BOOLEAN, w8 : BOOLEAN, w7 : BOOLEAN]

\* Faulty variant of VersionStream: it probes in ascending order.
VersionStreamAscending(os) ==
  IF os.w7 THEN [str |-> kWindows \o kTier7, probed |-> <<"IsWindows7OrGreater">>]
  ELSE IF os.w8
    THEN [str |-> kWindows \o kTier8,
          probed |-> <<"IsWindows7OrGreater", "IsWindows8OrGreater">>]
  ELSE IF os.w10
    THEN [str |-> kWindows \o kTier10,
          probed |-> <<"IsWindows7OrGreater", "IsWindows8OrGreater",
                       "IsWindows10OrGreater">>]
  ELSE [str |-> kWindows,
        probed |-> <<"IsWindows7OrGreater", "IsWindows8OrGreater",
                     "IsWindows10OrGreater">>]

\* version_stream after "Windows " and the if / else-if chain, with the
\* probes that were called, in order.
VersionStream(os) ==
  IF os.w10
    THEN [str |-> kWindows \o kTier10, probed |-> <<"IsWindows10OrGreater">>]
  ELSE IF os.w8
    THEN [str |-> kWindows \o kTier8,
          probed |-> <<"IsWindows10OrGreater", "IsWindows8OrGreater">>]
  ELSE IF os.w7
    THEN [str |-> kWindows \o kTier7,
          probed |-> <<"IsWindows10OrGreater", "IsWindows8OrGreater",
                       "IsWindows7OrGreater">>]
  ELSE [str |-> kWindows,
        probed |-> <<"IsWindows10OrGreater", "IsWindows8OrGreater",
                     "IsWindows7OrGreater">>]

\* One invocation on the MethodResult object.
Success(value)  == [kind |-> "Success", payload |-> <<value>>]
NotImplemented  == [kind |-> "NotImplemented", payload |-> <<>>]
Error           == [kind |-> "Error", payload |-> <<>>]

MethodCall(name, args) == [method_name |-> name, arguments |-> args]

\* Faulty variant of HandleMethodCall: the else branch is lost, NotImplemented is invoked on every call.
HandleMethodCallNoElse(method_call, os) ==
  IF MethodMatches(method_call.method_name)
    THEN LET vs == VersionStream(os)
         IN  [results |-> <<Success(EncodableValue("string", vs.str)), NotImplemented>>,
              probed  |-> vs.probed]
    ELSE [results |-> <<NotImplemented>>, probed |-> <<>>]

\* Faulty variant of HandleMethodCall: a host older than Windows 7 falls through to NotImplemented.
HandleMethodCallOldHost(method_call, os) ==
  IF MethodMatches(method_call.method_name) /\ (os.w10 \/ os.w8 \/ os.w7)
    THEN LET vs == VersionStream(os)
         IN  [results |-> <<Success(EncodableValue("string", vs.str))>>,
              probed  |-> vs.probed]
    ELSE [results |-> <<NotImplemented>>, probed |-> <<>>]

\* Faulty variant of HandleMethodCall: a string argument is appended to the version text.
HandleMethodCallUsesArgs(method_call, os) ==
  IF MethodMatches(method_call.method_name)
    THEN LET vs == VersionStream(os)
         IN  [results |-> <<Success(EncodableValue("string",
                               vs.str \o method_call.arguments.value))>>,
              probed  |-> vs.probed]
    ELSE [results |-> <<NotImplemented>>, probed |-> <<>>]

\* HandDetectionPlugin::HandleMethodCall: the invocations made on the
\* result object, in order, and the OS probes called, in order.
HandleMethodCall(method_call, os) ==
  IF MethodMatches(method_call.method_name)
    THEN LET vs == VersionStream(os)
         IN  [results |-> <<Success(EncodableValue("string", vs.str))>>,
              probed  |-> vs.probed]
    ELSE [results |-> <<NotImplemented>>, probed |-> <<>>]

\* ------------------------------------------------------------- registration (Windows)

\* What the host's messenger and a registrar's plugin registry hold is
\* decided by the Flutter embedder, which registration calls into:
\*   - a messenger keeps at most one handler per channel name, and setting a
\*     handler replaces the one set before under that name;
\*   - a MethodChannel object is only a way to set the handler: destroying
\*     it leaves the messenger's handlers as they are;
\*   - AddPlugin moves the instance into the registrar's set of plugins,
\*     which keeps it until the registrar is destroyed.
\* A binding is <<channel name, plugin pointer>>; the null pointer is 0.

\* Faulty variant of SetMethodCallHandler: the earlier handler stays bound as well.
SetMethodCallHandlerKeepsOld(bindings, channel, plugin_pointer) ==
  bindings \cup { <<channel, plugin_pointer>> }

\* channel->SetMethodCallHandler([plugin_pointer](...) {...})
SetMethodCallHandler(bindings, channel, plugin_pointer) ==
  { b \in bindings : b[1] # channel } \cup { <<channel, plugin_pointer>> }

\* Faulty variant of AddPlugin: the instance is not kept.
AddPluginDrops(owned, plugin) == owned

\* registrar->AddPlugin(std::move(plugin))
AddPlugin(owned, plugin) == owned \cup { plugin }

\* Faulty variant of RegisterBody: ownership is handed over before the handler is set.
RegisterBodyAddFirst ==
  << "make_channel", "make_plugin", "AddPlugin", "SetMethodCallHandler" >>

\* The statements of RegisterWithRegistrar, in source order.
RegisterBody ==
  << "make_channel", "make_plugin", "SetMethodCallHandler", "AddPlugin" >>

\* The locals and the registrar's state at the start of RegisterWithRegistrar:
\* channel and plugin are the two std::unique_ptr locals (empty or holding).
RegisterEntry(bindings, owned) ==
  [bindings |-> bindings, owned |-> owned,
   channel |-> <<>>, plugin |-> <<>>, trace |-> <<>>]

\* One statement of RegisterWithRegistrar; fresh is the instance that
\* std::make_unique<HandDetectionPlugin>() returns.
RegisterStmt(stmt, s, fresh) ==
  CASE stmt = "make_channel" ->
         [s EXCEPT !.channel = <<kChannelName>>]
    [] stmt = "make_plugin" ->
         [s EXCEPT !.plugin = <<fresh>>]
    [] stmt = "SetMethodCallHandler" ->
         LET ptr == IF s.plugin = <<>> THEN 0 ELSE s.plugin[1]   \* plugin.get()
         IN  [s EXCEPT
                !.bindings = SetMethodCallHandler(@, s.channel[1], ptr),
                !.trace = Append(@, [op |-> "SetMethodCallHandler",
                                     channel |-> s.channel[1], plugin |-> ptr])]
    [] stmt = "AddPlugin" ->
         IF s.plugin = <<>>
           THEN [s EXCEPT !.trace = Append(@, [op |-> "AddPlugin",
                                               channel |-> "", plugin |-> 0])]
           ELSE [s EXCEPT
                   !.owned = AddPlugin(@, s.plugin[1]),
                   !.plugin = <<>>,                              \* moved from
                   !.trace = Append(@, [op |-> "AddPlugin",
                                        channel |-> "", plugin |-> s.plugin[1]])]

RECURSIVE RegisterRun(_, _, _)
RegisterRun(stmts, s, fresh) ==
  IF stmts = <<>> THEN s
  ELSE RegisterRun(Tail(stmts), RegisterStmt(Head(stmts), s, fresh), fresh)

\* PluginRegistrarManager::GetRegistrar: the C++ wrapper of a registrar
\* reference, created at the first lookup and returned again afterwards.
GetRegistrar(ws, ref) == [wrappers |-> ws \cup {ref}, registrar |-> ref]

\* ------------------------------------------------------------- registrant (Linux)

\* A registrar handed out by fl_plugin_registry_get_registrar_for_plugin.
FlRegistrar(registry, name) == <<registry, name>>

\* Faulty variant of FlRegisterBody: the third plugin is registered with the second
\* plugin's registrar.
FlRegisterBodyWrongRegistrar ==
  << [op |-> "get_registrar", var |-> "camera_desktop_registrar",
      arg |-> "CameraDesktopPlugin"],
     [op |-> "register", var |-> "camera_desktop_registrar",
      arg |-> "camera_desktop_plugin_register_with_registrar"],
     [op |-> "get_registrar", var |-> "file_selector_linux_registrar",
      arg |-> "FileSelectorPlugin"],
     [op |-> "register", var |-> "file_selector_linux_registrar",
      arg |-> "file_selector_plugin_register_with_registrar"],
     [op |-> "get_registrar", var |-> "hand_detection_registrar",
      arg |-> "HandDetectionPlugin"],
     [op |-> "register", var |-> "file_selector_linux_registrar",
      arg |-> "hand_detection_plugin_register_with_registrar"] >>

\* The statements of fl_register_plugins, in source order: a lookup stores
\* the registrar for plugin name arg in local var; a register calls entry
\* point arg with the registrar held in local var.
FlRegisterBody ==
  << [op |-> "get_registrar", var |-> "camera_desktop_registrar",
      arg |-> "CameraDesktopPlugin"],
     [op |-> "register", var |-> "camera_desktop_registrar",
      arg |-> "camera_desktop_plugin_register_with_registrar"],
     [op |-> "get_registrar", var |-> "file_selector_linux_registrar",
      arg |-> "FileSelectorPlugin"],
     [op |-> "register", var |-> "file_selector_linux_registrar",
      arg |-> "file_selector_plugin_register_with_registrar"],
     [op |-> "get_registrar", var |-> "hand_detection_registrar",
      arg |-> "HandDetectionPlugin"],
     [op |-> "register", var |-> "hand_detection_registrar",
      arg |-> "hand_detection_plugin_register_with_registrar"] >>

FlLocals ==
  { "camera_desktop_registrar", "file_selector_linux_registrar",
    "hand_detection_registrar" }

\* One statement of fl_register_plugins on the locals env (each empty or
\* holding a registrar) and the trace of calls made so far.
FlStmt(stmt, registry, s) ==
  IF stmt.op = "get_registrar"
    THEN LET got == FlRegistrar(registry, stmt.arg)
         IN  [env   |-> [s.env EXCEPT ![stmt.var] = <<got>>],
              trace |-> Append(s.trace, [op |-> "lookup", name |-> stmt.arg,
                                         registrar |-> <<got>>])]
    ELSE [env   |-> s.env,
          trace |-> Append(s.trace, [op |-> "register", name |-> stmt.arg,
                                     registrar |-> s.env[stmt.var]])]

RECURSIVE FlRun(_, _, _)
FlRun(stmts, registry, s) ==
  IF stmts = <<>> THEN s
  ELSE FlRun(Tail(stmts), registry, FlStmt(Head(stmts), registry, s))

\* ------------------------------------------------------------- state

VARIABLES
  platform,    \* the host this build runs on: "windows" or "linux"
  os,          \* the host's answers to the three OS probes
  wrappers,    \* registrar references that have a C++ wrapper
  bindings,    \* per registrar: the handlers its messenger holds
  owned,       \* per registrar: the plugin instances its registry owns
  nextPlugin,  \* the next instance std::make_unique will return
  lastReg,     \* the latest registration: entry point, registrar, trace
  lastCall,    \* the latest method call delivered and its outcome
  earlier,     \* name and outcome of a call delivered before lastCall
  flTrace      \* the calls made by the latest run of fl_register_plugins

vars == << platform, os, wrappers, bindings, owned, nextPlugin, lastReg, lastCall,
           earlier, flTrace >>

\* The Windows sources are built into the Windows runner only and the
\* registrant into the Linux runner only; a Linux host has no OS probes.
Init ==
  /\ \/ platform = "windows" /\ os \in OsAnswers
     \/ platform = "linux" /\ os = [w10 |-> FALSE, w8 |-> FALSE, w7 |-> FALSE]
  /\ wrappers = {}
  /\ bindings = [r \in Registrars |-> {}]
  /\ owned = [r \in Registrars |-> {}]
  /\ nextPlugin = 1
  /\ lastReg = <<>>
  /\ lastCall = <<>>
  /\ earlier = <<>>
  /\ flTrace = <<>>

\* ------------------------------------------------------------- actions

\* HandDetectionPlugin::RegisterWithRegistrar(registrar), reached through
\* entry point entry.  At the closing brace both locals are destroyed: the
\* channel object (no effect on the messenger) and, if it still holds one,
\* the plugin instance.
RegisterWithRegistrar(r, entry) ==
  /\ platform = "windows"
  /\ nextPlugin <= MaxPlugins
  /\ LET s == RegisterRun(RegisterBody, RegisterEntry(bindings[r], owned[r]),
                          nextPlugin)
     IN  /\ bindings' = [bindings EXCEPT ![r] = s.bindings]
         /\ owned' = [owned EXCEPT ![r] = s.owned]
         /\ lastReg' = << [entry |-> entry, registrar |-> r, trace |-> s.trace] >>
  /\ nextPlugin' = nextPlugin + 1
  /\ UNCHANGED << platform, os, lastCall, earlier, flTrace >>

\* The exported HandDetectionPluginRegisterWithRegistrar(registrar).
HandDetectionPluginRegisterWithRegistrar(ref) ==
  LET got == GetRegistrar(wrappers, ref)
  IN  /\ wrappers' = got.wrappers
      /\ RegisterWithRegistrar(got.registrar,
                               "HandDetectionPluginRegisterWithRegistrar")

\* The exported HandDetectionPluginCApiRegisterWithRegistrar(registrar).
HandDetectionPluginCApiRegisterWithRegistrar(ref) ==
  LET got == GetRegistrar(wrappers, ref)
  IN  /\ wrappers' = got.wrappers
      /\ RegisterWithRegistrar(got.registrar,
                               "HandDetectionPluginCApiRegisterWithRegistrar")

\* RegisterWithRegistrar called by a caller that holds the C++ registrar.
RegisterDirect(r) ==
  /\ r \in wrappers
  /\ UNCHANGED wrappers
  /\ RegisterWithRegistrar(r, "RegisterWithRegistrar")

\* The plugin pointers the messenger of r dispatches a call on channel to.
Handlers(r, channel) == { b[2] : b \in { x \in bindings[r] : x[1] = channel } }

RECURSIVE Times(_, _)
Times(s, n) == IF n = 0 THEN <<>> ELSE s \o Times(s, n - 1)

\* What the handlers bound on r make of a call.  Each handler invokes
\* plugin_pointer->HandleMethodCall(call, result); through a pointer to an
\* instance the registry does not own the behaviour is undefined, and any
\* invocation on the result object, or none, may follow.
Outcomes(r, method_call) ==
  LET hs == Handlers(r, kChannelName)
      one == HandleMethodCall(method_call, os)
  IN  IF hs \subseteq owned[r]
        THEN { [results |-> Times(one.results, Cardinality(hs)),
                probed  |-> Times(one.probed, Cardinality(hs))] }
        ELSE { [results |-> rs, probed |-> <<>>] :
                 rs \in { <<>>, <<NotImplemented>>, <<Error>>,
                          <<Success(EncodableValue("string", <<>>))>> } }

\* The name and the outcome of a delivered call.
Answered(call) ==
  IF call = <<>> THEN <<>>
  ELSE << [name |-> call[1].name, results |-> call[1].results] >>

\* Faulty variant of Deliver: the handler is unbound once it has answered.
DeliverOnce(r, name, args) ==
  /\ Handlers(r, kChannelName) # {}
  /\ \E out \in Outcomes(r, MethodCall(name, args)) :
       lastCall' = << [registrar |-> r, name |-> name, args |-> args,
                       handledBy |-> Handlers(r, kChannelName),
                       results |-> out.results, probed |-> out.probed] >>
  /\ earlier' \in { earlier, Answered(lastCall) }
  /\ bindings' = [bindings EXCEPT ![r] = {}]
  /\ UNCHANGED << platform, os, wrappers, owned, nextPlugin, lastReg, flTrace >>

\* The host delivers one method call on channel "hand_detection" of
\* registrar r; the handler bound there answers it.  earlier keeps, or takes
\* over, the call answered before this one.
Deliver(r, name, args) ==
  /\ Handlers(r, kChannelName) # {}
  /\ \E out \in Outcomes(r, MethodCall(name, args)) :
       lastCall' = << [registrar |-> r, name |-> name, args |-> args,
                       handledBy |-> Handlers(r, kChannelName),
                       results |-> out.results, probed |-> out.probed] >>
  /\ earlier' \in { earlier, Answered(lastCall) }
  /\ UNCHANGED << platform, os, wrappers, bindings, owned, nextPlugin, lastReg,
                  flTrace >>

\* fl_register_plugins(registry)
fl_register_plugins(registry) ==
  /\ platform = "linux"
  /\ flTrace' = FlRun(FlRegisterBody, registry,
                      [env |-> [v \in FlLocals |-> <<>>], trace |-> <<>>]).trace
  /\ UNCHANGED << platform, os, wrappers, bindings, owned, nextPlugin, lastReg,
                  lastCall, earlier >>

Next ==
  \/ \E ref \in Registrars : HandDetectionPluginRegisterWithRegistrar(ref)
  \/ \E ref \in Registrars : HandDetectionPluginCApiRegisterWithRegistrar(ref)
  \/ \E r \in Registrars : RegisterDirect(r)
  \/ \E r \in Registrars, name \in MethodNames, args \in Arguments :
       Deliver(r, name, args)
  \/ \E registry \in Registries : fl_register_plugins(registry)

Spec == Init /\ [][Next]_vars

\* ------------------------------------------------------------- properties

StartsWith(s, prefix) ==
  /\ Len(s) >= Len(prefix)
  /\ SubSeq(s, 1, Len(prefix)) = prefix

Called == lastCall # <<>>
CalledGetPlatformVersion == Called /\ lastCall[1].name = kGetPlatformVersion
CalledOtherName == Called /\ lastCall[1].name # kGetPlatformVersion

\* The text the method contract prescribes for the host's probe answers:
\* "Windows 10+", "Windows 8", "Windows 7" or "Windows ".
ContractText ==
  IF os.w10 THEN <<87, 105, 110, 100, 111, 119, 115, 32, 49, 48, 43>>
  ELSE IF os.w8 THEN <<87, 105, 110, 100, 111, 119, 115, 32, 56>>
  ELSE IF os.w7 THEN <<87, 105, 110, 100, 111, 119, 115, 32, 55>>
  ELSE <<87, 105, 110, 100, 111, 119, 115, 32>>

\* C1: every call named exactly "getPlatformVersion" ends in Success with a
\* text value that begins with "Windows ", whatever the three OS probes
\* answer; no invocation on the result is NotImplemented or Error.
C1_VersionIsWindowsText ==
  CalledGetPlatformVersion =>
    /\ lastCall[1].results # <<>>
    /\ \A i \in 1..Len(lastCall[1].results) :
         LET res == lastCall[1].results[i]
         IN  /\ res.kind = "Success"
             /\ Len(res.payload) = 1
             /\ res.payload[1].type = "string"
             /\ StartsWith(res.payload[1].value, <<87, 105, 110, 100, 111, 119, 115, 32>>)

\* C1 witness: getPlatformVersion was answered on a host where all three
\* probes answer false.
C1_Witness ==
  /\ CalledGetPlatformVersion
  /\ ~os.w10 /\ ~os.w8 /\ ~os.w7
  /\ lastCall[1].results # <<>>

\* C2: every call whose name differs from "getPlatformVersion" ends in
\* NotImplemented without payload, for every argument payload; no OS probe
\* is called and no Error is raised.
C2_OtherNamesNotImplemented ==
  CalledOtherName =>
    /\ lastCall[1].results = << [kind |-> "NotImplemented", payload |-> <<>>] >>
    /\ lastCall[1].probed = <<>>

\* C2 witness: "getPlatformVersion2" was delivered with a non-null argument.
C2_Witness ==
  /\ CalledOtherName
  /\ StartsWith(lastCall[1].name, kGetPlatformVersion)
  /\ lastCall[1].args # NoArguments

\* C3: the text returned for getPlatformVersion is "Windows " followed by
\* "10+", else "8", else "7", else nothing, decided by the first probe, in
\* the order 10, 8, 7, that answers true; later probes are not consulted.
C3_TierByDescendingProbe ==
  CalledGetPlatformVersion =>
    /\ lastCall[1].results = << Success(EncodableValue("string", ContractText)) >>
    /\ lastCall[1].probed =
         SubSeq(<<"IsWindows10OrGreater", "IsWindows8OrGreater", "IsWindows7OrGreater">>,
                1, IF os.w10 THEN 1 ELSE IF os.w8 THEN 2 ELSE 3)

\* C3 witness: getPlatformVersion answered on a host whose first probe is
\* true while a later one is false.
C3_Witness ==
  /\ CalledGetPlatformVersion
  /\ os.w10 /\ ~os.w8
  /\ Len(lastCall[1].results) = 1

\* C4: every call completes its result object exactly once, by Success or
\* by NotImplemented and never by Error, for every call of every sequence.
C4_ExactlyOneCompletion ==
  Called =>
    /\ Len(lastCall[1].results) = 1
    /\ lastCall[1].results[1].kind \in { "Success", "NotImplemented" }

\* C4 witness: a call was answered after an earlier call had been answered.
C4_Witness ==
  /\ Called
  /\ earlier # <<>>
  /\ earlier[1].name # lastCall[1].name
  /\ Len(lastCall[1].results) = 1

\* C5: the outcome of getPlatformVersion does not depend on the argument
\* payload: with any payload it is the outcome of the call without
\* arguments on the same host.
C5_ArgumentsIgnored ==
  CalledGetPlatformVersion =>
    \A a \in Arguments :
      lastCall[1].results
        = HandleMethodCall(MethodCall(kGetPlatformVersion, a), os).results

\* C5 witness: getPlatformVersion was answered with extraneous arguments.
C5_Witness ==
  /\ CalledGetPlatformVersion
  /\ lastCall[1].args # NoArguments
  /\ lastCall[1].results # <<>>

\* The answer the method contract prescribes for a method name.
ContractAnswer(name) ==
  IF name = kGetPlatformVersion
    THEN << [kind |-> "Success",
             payload |-> << [type |-> "string", value |-> ContractText] >>] >>
    ELSE << [kind |-> "NotImplemented", payload |-> <<>>] >>

\* C6: once registration has run on a registrar, once or several times,
\* exactly one handler is bound to "hand_detection" there, every call is
\* handled by exactly one plugin instance, and it is answered as the method
\* contract says.
C6_RegistrationIdempotent ==
  /\ \A r \in wrappers : Cardinality(Handlers(r, "hand_detection")) = 1
  /\ Called =>
       /\ Cardinality(lastCall[1].handledBy) = 1
       /\ lastCall[1].results = ContractAnswer(lastCall[1].name)

\* C6 witness: a call was answered on a registrar that was registered twice,
\* by the instance of the second registration.
C6_Witness ==
  /\ Called
  /\ LET r == lastCall[1].registrar
     IN  /\ Cardinality(owned[r]) >= 2
         /\ \E p \in lastCall[1].handledBy : \E q \in owned[r] : q < p

\* The places of the calls of op in a registration trace.
TraceOps(trace, op) == { i \in 1..Len(trace) : trace[i].op = op }

\* C7: each registration, through either exported entry point or directly,
\* binds the channel name "hand_detection" exactly once on the registrar's
\* messenger, then hands exactly one newly created instance, the one the
\* handler captured, to that registrar's registry; nothing else is bound and
\* no other registrar changes.
C7_OneBindOneAddPerRegistration ==
  [][ nextPlugin' # nextPlugin =>
        LET reg   == lastReg'[1]
            r     == reg.registrar
            binds == TraceOps(reg.trace, "SetMethodCallHandler")
            adds  == TraceOps(reg.trace, "AddPlugin")
        IN  /\ reg.entry \in { "HandDetectionPluginRegisterWithRegistrar",
                               "HandDetectionPluginCApiRegisterWithRegistrar",
                               "RegisterWithRegistrar" }
            /\ Cardinality(binds) = 1
            /\ Cardinality(adds) = 1
            /\ \A i \in binds : \A j \in adds :
                 /\ i < j
                 /\ reg.trace[i].channel = "hand_detection"
                 /\ reg.trace[i].plugin = reg.trace[j].plugin
                 /\ reg.trace[j].plugin \notin UNION { owned[q] : q \in Registrars }
                 /\ owned'[r] = owned[r] \cup { reg.trace[j].plugin }
                 /\ bindings'[r] = { b \in bindings[r] : b[1] # "hand_detection" }
                                     \cup { <<"hand_detection", reg.trace[i].plugin>> }
            /\ \A b \in bindings'[r] : b[1] = "hand_detection"
            /\ \A q \in Registrars \ {r} :
                 owned'[q] = owned[q] /\ bindings'[q] = bindings[q] ]_vars

\* C7 witness: the C API entry point registered a registrar a second time.
C7_Witness ==
  /\ lastReg # <<>>
  /\ lastReg[1].entry = "HandDetectionPluginCApiRegisterWithRegistrar"
  /\ Cardinality(owned[lastReg[1].registrar]) = 2
  /\ Len(lastReg[1].trace) = 2

\* C8: a method call changes neither the registered plugins nor the handler
\* bindings, and a call repeating the name of an earlier call has the outcome
\* of that earlier call, whatever was delivered in between.
C8_CallsHaveNoEffect ==
  [][ /\ (lastCall' # lastCall \/ earlier' # earlier) =>
           /\ bindings' = bindings
           /\ owned' = owned
           /\ wrappers' = wrappers
           /\ nextPlugin' = nextPlugin
      /\ (lastCall' # <<>> /\ earlier' # <<>>
            /\ earlier'[1].name = lastCall'[1].name) =>
           earlier'[1].results = lastCall'[1].results ]_vars

\* C8 witness: getPlatformVersion was answered again after an earlier
\* getPlatformVersion, on the second registered instance.
C8_Witness ==
  /\ CalledGetPlatformVersion
  /\ earlier # <<>>
  /\ earlier[1].name = kGetPlatformVersion
  /\ nextPlugin > 2

\* The bundled plugins in registration order: the name looked up and the
\* registration entry point of each.
BundledPlugins ==
  << [name |-> "CameraDesktopPlugin",
      entry |-> "camera_desktop_plugin_register_with_registrar"],
     [name |-> "FileSelectorPlugin",
      entry |-> "file_selector_plugin_register_with_registrar"],
     [name |-> "HandDetectionPlugin",
      entry |-> "hand_detection_plugin_register_with_registrar"] >>

\* C9: one run of fl_register_plugins makes six calls: for each bundled
\* plugin, in the order camera, file selector, hand detection, one registrar
\* lookup under the plugin's name and then one call of the plugin's entry
\* point with the registrar just looked up; the three registrars differ.
C9_RegistrantOrder ==
  flTrace # <<>> =>
    /\ Len(flTrace) = 2 * Len(BundledPlugins)
    /\ \A k \in 1..Len(BundledPlugins) :
         LET lookup == flTrace[2 * k - 1]
             call   == flTrace[2 * k]
         IN  /\ lookup.op = "lookup"
             /\ lookup.name = BundledPlugins[k].name
             /\ Len(lookup.registrar) = 1
             /\ call.op = "register"
             /\ call.name = BundledPlugins[k].entry
             /\ call.registrar = lookup.registrar
    /\ \A j, k \in 1..Len(BundledPlugins) :
         j # k => flTrace[2 * j].registrar # flTrace[2 * k].registrar

\* C9 witness: the registrant has run on the last registry.
C9_Witness ==
  /\ flTrace # <<>>
  /\ flTrace[1].registrar[1][1] = NumRegistries
  /\ flTrace[Len(flTrace)].op = "register"

\* C10: every handler bound to "hand_detection" on a registrar's messenger
\* points to an instance owned by that same registrar's registry, and every
\* call is dispatched to such an instance.
C10_HandlerTargetOwned ==
  /\ \A r \in Registrars : \A p \in Handlers(r, "hand_detection") :
       p # 0 /\ p \in owned[r]
  /\ Called => lastCall[1].handledBy \subseteq owned[lastCall[1].registrar]

\* C10 witness: two registrars are registered, each with its own instance,
\* and a call has been dispatched.
C10_Witness ==
  /\ Called
  /\ \A r \in Registrars : r <= 2 => Handlers(r, "hand_detection") # {}
  /\ lastCall[1].handledBy # {}

====
